---- MODULE Spec2Model ----
(***************************************************************************)
(* The message queue of tauri-notice-window: the zustand store             *)
(* (stores/messageQueueStore.ts), the Dexie table (utils/db.ts), the       *)
(* window adapter (utils/noticeWindow.ts) and the hooks that drive them.   *)
(*                                                                         *)
(* Every async function is a task: a record holding its position (pc) and *)
(* its locals.  One action resumes one task at one await: it applies the   *)
(* awaited database or window call, then runs the code up to the next      *)
(* await.  Tasks of one context interleave only at their awaits.           *)
(***************************************************************************)
EXTENDS Integers, Sequences, FiniteSets, Bags, TLC

VARIABLES
    store,      \* per context: the zustand state (queue, currentMessage, ...)
    prev,       \* per context: previousMessage of the store subscription
    sub,        \* per context: the subscription is installed
    awin,       \* per context: keys of the activeWindows map
    handlers,   \* per context and id: 'tauri://destroyed' listeners registered
    db,         \* the Dexie table messages: id -> row
    wins,       \* labels (message ids) of the notice windows that are open
    tasks,      \* bag of the async calls in flight
    presented,  \* history: times showNext made id the currentMessage (capped)
    last,       \* history: the awaited call the last step completed
    calls,      \* history: number of calls the environment has made
    plan,       \* the scenario the environment follows (<<>>: any calls)
    page,       \* the notice window whose webview is the "notice" context
    chan        \* per context: the sync updates on their way to it

vars == <<store, prev, sub, awin, handlers, db, wins, tasks, presented, last,
          calls, plan, page, chan>>

-----------------------------------------------------------------------------
(* Bounds *)

NumMsgs == 3
MaxCalls == 3
\* The notifications that arrive in the delivery specification.
Notifications == 2

Ids == 1..NumMsgs
None == 0
\* The webview of the main window, and the webview of a notice window.
Main == "main"
Notice == "notice"
Contexts == {Main, Notice}

-----------------------------------------------------------------------------
(* Values *)

\* MessageQueueState's data fields, as storeCreator sets them.
InitialState ==
    [queue |-> <<>>, currentMessage |-> None, isProcessing |-> FALSE,
     initialized |-> FALSE, activeWindowIds |-> <<>>]

\* StoredMessage: the fields the queue reads and writes.
NoRow == [queueStatus |-> "absent", queuePosition |-> 0]

\* What `last` keeps of a completed call: its argument, its snapshot, its
\* history; error: "rejected" when the call ended by rejecting the promise
\* its caller awaits, "unhandled" when it rejected a promise nobody holds.
NoObs == [op |-> "none", ctx |-> "main", msg |-> None, queue |-> <<>>,
          idle |-> FALSE, cur |-> None, iso |-> FALSE, second |-> FALSE,
          error |-> "none"]

\* An async call in flight.  queue, idle: enqueue's `state` snapshot;
\* cur: the hook's rendered store.currentMessage; next: showNext's
\* nextMessage; positions: the argument of the pending updateQueuePositions;
\* ids, closed: the windows closeAllNoticeWindows has yet to close, has closed.
\* iso, second are history: no other step ran since the call began; the call
\* repeats the enqueue that completed in the step before it.
Task(op, c, m) ==
    [op |-> op, ctx |-> c, pc |-> "start", msg |-> m, queue |-> <<>>,
     idle |-> FALSE, cur |-> None, next |-> None, positions |-> <<>>,
     ids |-> {}, closed |-> {}, iso |-> FALSE, second |-> FALSE]

\* Calls a caller awaits; the others are fire-and-forget.
TopOps == {"enqueue", "init", "hide", "hideAll", "closeNotice", "clearAll"}

Range(s) == {s[i] : i \in 1..Len(s)}

SelectOut(s, x) == SelectSeq(s, LAMBDA y : y # x)

CountIn(s, x) == Cardinality({i \in 1..Len(s) : s[i] = x})

\* The system as one value, so that the code's functions compose.
Cur ==
    [store |-> store, prev |-> prev, sub |-> sub, awin |-> awin,
     handlers |-> handlers, db |-> db, wins |-> wins, tasks |-> tasks,
     presented |-> presented, last |-> last, page |-> page, chan |-> chan]

Commit(S) ==
    /\ store' = S.store
    /\ prev' = S.prev
    /\ sub' = S.sub
    /\ awin' = S.awin
    /\ handlers' = S.handlers
    /\ db' = S.db
    /\ wins' = S.wins
    /\ tasks' = S.tasks
    /\ presented' = S.presented
    /\ last' = S.last
    /\ page' = S.page
    /\ chan' = S.chan

\* Every task in flight has now seen another step run.
Interfered(B) ==
    LET T == {[t EXCEPT !.iso = FALSE] : t \in BagToSet(B)}
    IN  [x \in T |-> CopiesIn(x, B) + CopiesIn([x EXCEPT !.iso = TRUE], B)]

Spawn(S, t) == [S EXCEPT !.tasks = @ (+) SetToBag({t})]

Continue(S, t, pc) == Spawn(S, [t EXCEPT !.pc = pc])

Finish(S, t) ==
    IF t.op \in TopOps \cup {"showNext"}
    THEN [S EXCEPT !.last = [op |-> t.op, ctx |-> t.ctx, msg |-> t.msg,
                             queue |-> t.queue, idle |-> t.idle, cur |-> t.cur,
                             iso |-> t.iso, second |-> t.second,
                             error |-> "none"]]
    ELSE S

\* Mutation of Rejects: the failure is caught and the current message is
\* reset, as with try / finally around the await.
RejectsThenClears(S, t) ==
    [S EXCEPT !.store[t.ctx].currentMessage = None,
              !.store[t.ctx].isProcessing = FALSE,
              !.last = [NoObs EXCEPT !.op = t.op, !.ctx = t.ctx, !.msg = t.msg,
                                     !.error = "unhandled"]]

\* The Dexie call task t awaits rejects.  No function of the store catches:
\* the async function of t rejects, and with it every function that awaits
\* it; t is such a chain of awaits.  The promise of a call that was not
\* awaited (clearCurrent's showNext(), an event listener) has no holder.
Rejects(S, t) ==
    [S EXCEPT !.last = [NoObs EXCEPT !.op = t.op, !.ctx = t.ctx, !.msg = t.msg,
                                     !.error = IF t.op \in TopOps THEN "rejected"
                                               ELSE "unhandled"]]

\* The state a step of task t starts from, and the state a call starts from.
Resume(t) ==
    [Cur EXCEPT !.tasks = Interfered(tasks (-) SetToBag({t})), !.last = NoObs]

Begin == [Cur EXCEPT !.tasks = Interfered(tasks), !.last = NoObs]

-----------------------------------------------------------------------------
(* utils/db.ts *)

hasMessage(d, id) == d[id].queueStatus # "absent"

saveMessage(d, id) ==
    [d EXCEPT ![id] = [queueStatus |-> "pending", queuePosition |-> 0]]

\* Table.update changes a row only if the key exists.
updateQueueStatus(d, id, status) ==
    IF hasMessage(d, id) THEN [d EXCEPT ![id].queueStatus = status] ELSE d

markAsShown(d, id) == updateQueueStatus(d, id, "shown")

\* Mutation of markAsHidden: the row is written whether it exists or not.
markAsHiddenPut(d, id) == [d EXCEPT ![id].queueStatus = "hidden"]

markAsHidden(d, id) == updateQueueStatus(d, id, "hidden")

\* positions: the ids in queue order; the i-th gets position i-1.
updateQueuePositions(d, positions) ==
    [id \in Ids |->
        IF hasMessage(d, id) /\ id \in Range(positions)
        THEN [d[id] EXCEPT !.queuePosition =
                (CHOOSE i \in 1..Len(positions) : positions[i] = id
                    /\ \A j \in 1..Len(positions) : positions[j] = id => j <= i) - 1]
        ELSE d[id]]

RECURSIVE SortByPosition(_, _)
SortByPosition(d, ids) ==
    IF ids = {} THEN <<>>
    ELSE LET m == CHOOSE x \in ids : \A y \in ids :
                      \/ d[x].queuePosition < d[y].queuePosition
                      \/ d[x].queuePosition = d[y].queuePosition /\ x <= y
         IN  <<m>> \o SortByPosition(d, ids \ {m})

\* Mutation of getPendingMessages: the pending rows in primary key order.
getPendingMessagesByKey(d) ==
    SortByPosition([id \in Ids |-> [d[id] EXCEPT !.queuePosition = 0]],
                   {id \in Ids : d[id].queueStatus = "pending"})

\* where('queueStatus').equals('pending').sortBy('queuePosition'): equal
\* positions keep the index order, which is by primary key.
getPendingMessages(d) ==
    SortByPosition(d, {id \in Ids : d[id].queueStatus = "pending"})

\* Mutation of clearPendingMessages: the showing rows are kept.
clearPendingMessagesOnly(d) ==
    [id \in Ids |-> IF d[id].queueStatus = "pending" THEN NoRow ELSE d[id]]

clearPendingMessages(d) ==
    [id \in Ids |->
        IF d[id].queueStatus \in {"pending", "showing"} THEN NoRow ELSE d[id]]

-----------------------------------------------------------------------------
(* stores/messageQueueStore.ts and the subscription of utils/noticeWindow.ts *)

Merge(state, partial) ==
    [k \in DOMAIN state |-> IF k \in DOMAIN partial THEN partial[k] ELSE state[k]]

isWindowActive(S, c, id) == id \in Range(S.store[c].activeWindowIds)

\* createNoticeWindow up to its first await (calculateWindowPosition).
createNoticeWindow(S, c, m) ==
    IF isWindowActive(S, c, m) THEN S
    ELSE Continue(S, Task("createNoticeWindow", c, m), "calculateWindowPosition")

\* The listener initializeNoticeWindowSystem subscribes: it runs after
\* every set().  fresh: state.currentMessage is an object this context has
\* not seen (currentMessage !== previousMessage compares references).
Listener(S, c, fresh) ==
    LET currentMessage == S.store[c].currentMessage
    IN  IF ~S.sub[c] THEN S
        ELSE IF currentMessage # None /\ (fresh \/ currentMessage # S.prev[c])
        THEN createNoticeWindow([S EXCEPT !.prev[c] = currentMessage], c,
                                currentMessage)
        ELSE IF currentMessage = None THEN [S EXCEPT !.prev[c] = None]
        ELSE S

Subscriber(S, c) == Listener(S, c, FALSE)

\* The contexts that run.
Running(S) == IF S.page = None THEN {Main} ELSE {Main, Notice}

\* syncTabs: the fields a set() changed are broadcast to the other contexts.
Broadcast(S, c, before) ==
    LET after == S.store[c]
        changed == {k \in DOMAIN after : after[k] # before[k]}
        update == [k \in changed |-> after[k]]
    IN  IF changed = {} THEN S
        ELSE [S EXCEPT !.chan = [d \in Contexts |->
                 IF d \in Running(S) \ {c} THEN Append(S.chan[d], update)
                 ELSE S.chan[d]]]

\* The element of a singleton.
The(X) == CHOOSE x \in X : TRUE

\* zustand's set(partial): merge, then notify the subscribers; syncTabs
\* wraps it.  T is the state before the call and V the state the
\* subscribers leave, each evaluated once.
set(S, c, partial) ==
    The({The({Broadcast(V, c, T.store[c]) :
                V \in {Subscriber([T EXCEPT !.store[c] = Merge(@, partial)], c)}}) :
           T \in {S}})

\* syncTabs, receiving: the update is merged with the plain set(), and the
\* subscribers are notified; a currentMessage that came through the channel
\* is a new object.
applySync(S, c, update) ==
    Listener([S EXCEPT !.store[c] = Merge(@, update)], c,
             "currentMessage" \in DOMAIN update)

\* Mutation of addActiveWindow: the id is appended without the includes
\* check.
addActiveWindowAlways(S, c, id) ==
    set(S, c, [activeWindowIds |-> Append(S.store[c].activeWindowIds, id)])

addActiveWindow(S, c, id) ==
    IF ~isWindowActive(S, c, id)
    THEN set(S, c, [activeWindowIds |-> Append(S.store[c].activeWindowIds, id)])
    ELSE S

\* Mutation of removeActiveWindow: the id stays in activeWindowIds.
removeActiveWindowNot(S, c, id) == S

removeActiveWindow(S, c, id) ==
    set(S, c, [activeWindowIds |-> SelectOut(S.store[c].activeWindowIds, id)])

\* showNext counts as a presentation of m.
Presented(S, m) ==
    [S EXCEPT !.presented[m] = IF @ < 2 THEN @ + 1 ELSE @]

\* Mutation of dequeueNext: the newest message first.
dequeueNextLast(q) == q[Len(q)]

\* dequeue: const [nextMessage, ...remainingQueue] = state.queue

dequeueNext(q) == Head(q)

\* Mutation of the dequeue: the queue keeps its head.
dequeueRemainingAll(q) == q
dequeueRemaining(q) == Tail(q)

\* A showNext() call that is not part of an awaited call; queue, cur, iso
\* are history: the state it starts from.
ShowNextTask(S, c) ==
    [Task("showNext", c, None) EXCEPT !.queue = S.store[c].queue,
                                      !.cur = S.store[c].currentMessage,
                                      !.idle = ~S.store[c].isProcessing,
                                      !.iso = TRUE]

\* Mutation of showNext: without "Skip if already processing".
showNextAlways(S, c, t) ==
    LET state == S.store[c]
    IN  IF Len(state.queue) = 0
        THEN Finish(set(S, c, [isProcessing |-> FALSE, currentMessage |-> None]), t)
        ELSE LET nextMessage == dequeueNext(state.queue)
                 S1 == set(S, c, [queue |-> dequeueRemaining(state.queue)])
                 S2 == set(S1, c, [currentMessage |-> nextMessage,
                                   isProcessing |-> TRUE])
             IN  Continue(Presented(S2, nextMessage),
                          [t EXCEPT !.next = nextMessage], "updateQueueStatus")

\* showNext, run by task t, up to its first await (updateQueueStatus).
showNext(S, c, t) ==
    LET state == S.store[c]
    IN  IF state.isProcessing THEN Finish(S, t)
        ELSE IF Len(state.queue) = 0
        THEN Finish(set(S, c, [isProcessing |-> FALSE, currentMessage |-> None]), t)
        ELSE LET nextMessage == dequeueNext(state.queue)
                 S1 == set(S, c, [queue |-> dequeueRemaining(state.queue)])
                 S2 == set(S1, c, [currentMessage |-> nextMessage,
                                   isProcessing |-> TRUE])
             IN  Continue(Presented(S2, nextMessage),
                          [t EXCEPT !.next = nextMessage], "updateQueueStatus")

\* Mutation of clearCurrent: isProcessing is left as it is.
clearCurrentOnly(S, c) ==
    LET S1 == set(S, c, [currentMessage |-> None])
    IN  IF Len(S1.store[c].queue) > 0
        THEN showNext(S1, c, ShowNextTask(S1, c))
        ELSE S1

\* clearCurrent does not await the showNext it starts.
clearCurrent(S, c) ==
    LET S1 == set(S, c, [currentMessage |-> None, isProcessing |-> FALSE])
    IN  IF Len(S1.store[c].queue) > 0
        THEN showNext(S1, c, ShowNextTask(S1, c))
        ELSE S1

\* persistQueue up to its await: the positions are read from get() now and
\* written when updateQueuePositions runs.
persistQueue(S, c, t, pc) ==
    Continue(S, [t EXCEPT !.positions = S.store[c].queue], pc)

\* Mutation of AutoShow: enqueue without the auto-show.
AutoShowNever(S, t) == Finish(S, t)

\* enqueue: "Auto-show if not currently processing", on the snapshot.
AutoShow(S, t) ==
    IF t.idle THEN showNext(S, t.ctx, t) ELSE Finish(S, t)

\* Mutation of alreadyInQueue: enqueue without the duplicate check.
alreadyInQueueNever(t) == FALSE

alreadyInQueue(t) == \E i \in 1..Len(t.queue) : t.queue[i] = t.msg

\* enqueue after hasMessage / saveMessage: "Add to queue if not already
\* present", on the snapshot.
AddToQueue(S, t) ==
    IF ~alreadyInQueue(t)
    THEN persistQueue(set(S, t.ctx, [queue |-> Append(t.queue, t.msg)]),
                      t.ctx, t, "enqueue.persistQueue")
    ELSE AutoShow(S, t)

\* enqueue up to its first await (hasMessage).
enqueue(S, c, m) ==
    LET state == S.store[c]
        again == last.op = "enqueue" /\ last.msg = m /\ last.iso /\ last.ctx = c
    IN  Continue(S,
                 [Task("enqueue", c, m) EXCEPT
                    !.queue = state.queue,
                    !.idle = ~state.isProcessing /\ state.currentMessage = None,
                    !.cur = state.currentMessage,
                    !.iso = TRUE, !.second = again],
                 "hasMessage")

\* Mutation of initializeFromDatabase: without the initialized guard.
initializeFromDatabaseAgain(S, c) ==
    Continue(set(S, c, [initialized |-> TRUE]), Task("init", c, None),
             "getPendingMessages")

\* initializeFromDatabase up to its await (getPendingMessages).
initializeFromDatabase(S, c) ==
    IF S.store[c].initialized THEN Finish(S, Task("init", c, None))
    ELSE Continue(set(S, c, [initialized |-> TRUE]), Task("init", c, None),
                  "getPendingMessages")

\* clearOnLogout up to its await (clearPendingMessages), run by task t.
clearOnLogout(S, c, t) ==
    Continue(set(S, c, [queue |-> <<>>, currentMessage |-> None,
                        isProcessing |-> FALSE, activeWindowIds |-> <<>>,
                        initialized |-> FALSE]),
             t, "clearPendingMessages")

-----------------------------------------------------------------------------
(* utils/noticeWindow.ts and the hooks *)

\* The webview of the notice window goes with its window: its store, its
\* calls in flight and the updates on their way to it.
Unloaded(S) ==
    LET T == {t \in BagToSet(S.tasks) : t.ctx # Notice}
    IN  [S EXCEPT !.page = None,
                  !.store[Notice] = InitialState,
                  !.prev[Notice] = None,
                  !.awin[Notice] = {},
                  !.chan[Notice] = <<>>,
                  !.tasks = [t \in T |-> CopiesIn(t, S.tasks)]]

\* The window labelled notice-<id> is destroyed: every listener registered
\* with once('tauri://destroyed') is called, as a task of its own.
Destroyed(S, id) ==
    LET H == {[Task("destroyed", c, id) EXCEPT !.pc = "tauri://destroyed"] :
                c \in {x \in Contexts : S.handlers[x][id] > 0}}
        S1 == [S EXCEPT !.wins = @ \ {id},
                  !.handlers = [c \in Contexts |-> [S.handlers[c] EXCEPT ![id] = 0]],
                  !.tasks = @ (+) [t \in H |-> S.handlers[t.ctx][id]]]
    IN  IF S.page = id THEN Unloaded(S1) ELSE S1

\* What follows `await closeNoticeWindow(id)` in the caller t.
AfterClose(S, t) ==
    IF t.op = "hide" /\ t.cur = t.msg
    THEN Finish(clearCurrent(S, t.ctx), t)
    ELSE Finish(S, t)

\* closeNoticeWindow(t.msg) up to its await (window.close).
closeNoticeWindow(S, t) ==
    IF t.msg \in S.awin[t.ctx] THEN Continue(S, t, "window.close")
    ELSE AfterClose(S, t)

\* hideNotice up to its first await (markAsHidden); store is the state the
\* hook rendered.
hideNotice(S, c, id) ==
    Continue(S, [Task("hide", c, id) EXCEPT !.cur = S.store[c].currentMessage],
             "markAsHidden")

\* closeNotice of useCloseNotice.
closeNotice(S, c) ==
    LET currentMessage == S.store[c].currentMessage
    IN  IF currentMessage # None
        THEN closeNoticeWindow(S, Task("closeNotice", c, currentMessage))
        ELSE Finish(S, Task("closeNotice", c, None))

\* hideAllNotices up to its first await (closeAllNoticeWindows).
hideAllNotices(S, c) ==
    IF S.awin[c] = {} THEN clearOnLogout(S, c, Task("hideAll", c, None))
    ELSE Continue(S, [Task("hideAll", c, None) EXCEPT !.ids = S.awin[c]],
                  "closeAll")

\* initializeNoticeSystem: the subscription, then initializeFromDatabase.
initializeNoticeSystem(S, c) ==
    initializeFromDatabase([S EXCEPT !.sub[c] = TRUE], c)

-----------------------------------------------------------------------------
(* Steps: one per await *)

TasksAt(pc) == {t \in BagToSet(tasks) : t.pc = pc}

InDb(S, d) == [S EXCEPT !.db = d]

Step(S) == Commit(S) /\ UNCHANGED <<calls, plan>>

\* A sync update arrives in context c.
SyncDelivered ==
    \E c \in Contexts :
        /\ chan[c] # <<>>
        /\ Step(applySync([Begin EXCEPT !.chan[c] = Tail(@)], c, Head(chan[c])))

HasMessageReturns ==
    \E t \in TasksAt("hasMessage") :
        LET S == Resume(t)
        IN  Step(IF ~hasMessage(S.db, t.msg) THEN Continue(S, t, "saveMessage")
                 ELSE AddToQueue(S, t))

SaveMessageReturns ==
    \E t \in TasksAt("saveMessage") :
        LET S == Resume(t)
        IN  Step(AddToQueue(InDb(S, saveMessage(S.db, t.msg)), t))

EnqueuePersistReturns ==
    \E t \in TasksAt("enqueue.persistQueue") :
        LET S == Resume(t)
        IN  Step(AutoShow(InDb(S, updateQueuePositions(S.db, t.positions)), t))

UpdateQueueStatusReturns ==
    \E t \in TasksAt("updateQueueStatus") :
        LET S == Resume(t)
        IN  Step(persistQueue(InDb(S, updateQueueStatus(S.db, t.next, "showing")),
                              t.ctx, t, "showNext.persistQueue"))

ShowNextPersistReturns ==
    \E t \in TasksAt("showNext.persistQueue") :
        LET S == Resume(t)
        IN  Step(Finish(InDb(S, updateQueuePositions(S.db, t.positions)), t))

GetPendingMessagesReturns ==
    \E t \in TasksAt("getPendingMessages") :
        \E S \in {Resume(t)} :
            \E pendingMessages \in {getPendingMessages(S.db)} :
                Step(IF Len(pendingMessages) > 0
                     THEN showNext(set(S, t.ctx, [queue |-> pendingMessages]),
                                   t.ctx,
                                   [t EXCEPT !.queue = pendingMessages,
                                             !.idle = ~S.store[t.ctx].isProcessing])
                     ELSE Finish(S, t))

\* new WebviewWindow succeeds: the window is tracked and its destroyed
\* listener registered.  A label that is already open opens no second window.
WindowCreated ==
    \E t \in TasksAt("calculateWindowPosition") :
        LET S == Resume(t)
            S1 == [S EXCEPT !.wins = @ \cup {t.msg},
                            !.awin[t.ctx] = @ \cup {t.msg}]
            S2 == addActiveWindow(S1, t.ctx, t.msg)
        IN  Step([S2 EXCEPT !.handlers[t.ctx][t.msg] = @ + 1])

\* Mutation of createNoticeWindowCatch: the error is logged and nothing
\* else is done.
createNoticeWindowCatchLogOnly(S, t) == S

\* The catch block of createNoticeWindow, run by task t: "Clean up on error".
createNoticeWindowCatch(S, t) ==
    clearCurrent(removeActiveWindow(S, t.ctx, t.msg), t.ctx)

\* new WebviewWindow throws.  `last` keeps the message and the queue the
\* catch block found.
WindowCreateThrows ==
    \E t \in TasksAt("calculateWindowPosition") :
        LET S == Resume(t)
            S1 == createNoticeWindowCatch(S, t)
        IN  Step([S1 EXCEPT !.last = [NoObs EXCEPT !.op = "createNoticeWindow.catch",
                                                   !.ctx = t.ctx, !.msg = t.msg,
                                                   !.queue = store[t.ctx].queue]])

\* The 'tauri://destroyed' listener, up to its await (markAsShown).
DestroyedHandlerRuns ==
    \E t \in TasksAt("tauri://destroyed") :
        LET S == Resume(t)
            S1 == [S EXCEPT !.awin[t.ctx] = @ \ {t.msg}]
        IN  Step(Continue(removeActiveWindow(S1, t.ctx, t.msg), t, "markAsShown"))

MarkAsShownReturns ==
    \E t \in TasksAt("markAsShown") :
        LET S == Resume(t)
        IN  Step(clearCurrent(InDb(S, markAsShown(S.db, t.msg)), t.ctx))

MarkAsHiddenReturns ==
    \E t \in TasksAt("markAsHidden") :
        LET S == Resume(t)
        IN  Step(closeNoticeWindow(InDb(S, markAsHidden(S.db, t.msg)), t))

\* window.close() runs: the window is destroyed; with no such window the
\* call rejects and closeNoticeWindow's catch block returns.
WindowCloseRuns ==
    \E t \in TasksAt("window.close") :
        LET S == Resume(t)
        IN  Step(IF t.msg \in S.wins THEN Continue(Destroyed(S, t.msg), t, "window.closed")
                 ELSE AfterClose(S, t))

WindowCloseReturns ==
    \E t \in TasksAt("window.closed") :
        LET S == Resume(t)
        IN  Step(AfterClose([S EXCEPT !.awin[t.ctx] = @ \ {t.msg}], t))

\* One of the window.close() calls of closeAllNoticeWindows runs.
CloseAllRuns ==
    \E t \in TasksAt("closeAll") : \E id \in t.ids :
        LET S == Resume(t)
            open == id \in S.wins
            t1 == [t EXCEPT !.ids = @ \ {id},
                            !.closed = IF open THEN @ \cup {id} ELSE @]
        IN  Step(Continue(IF open THEN Destroyed(S, id) ELSE S, t1,
                          IF t1.ids = {} THEN "closeAll.resolved" ELSE "closeAll"))

CloseAllReturns ==
    \E t \in TasksAt("closeAll.resolved") :
        LET S == Resume(t)
        IN  Step(clearOnLogout([S EXCEPT !.awin[t.ctx] = @ \ t.closed], t.ctx, t))

ClearPendingMessagesReturns ==
    \E t \in TasksAt("clearPendingMessages") :
        LET S == Resume(t)
        IN  Step(Finish(InDb(S, clearPendingMessages(S.db)), t))

Steps ==
    \/ HasMessageReturns
    \/ SaveMessageReturns
    \/ EnqueuePersistReturns
    \/ UpdateQueueStatusReturns
    \/ ShowNextPersistReturns
    \/ GetPendingMessagesReturns
    \/ WindowCreated
    \/ DestroyedHandlerRuns
    \/ MarkAsShownReturns
    \/ MarkAsHiddenReturns
    \/ WindowCloseRuns
    \/ WindowCloseReturns
    \/ CloseAllRuns
    \/ CloseAllReturns
    \/ ClearPendingMessagesReturns

-----------------------------------------------------------------------------
(* The environment: the application's calls, the user, the process *)

TopInFlight ==
    LET T == {t \in BagToSet(tasks) : t.op \in TopOps}
        RECURSIVE Sum(_)
        Sum(X) == IF X = {} THEN 0
                  ELSE LET x == CHOOSE y \in X : TRUE
                       IN  CopiesIn(x, tasks) + Sum(X \ {x})
    IN  Sum(T)

Call(S) == Commit(S) /\ calls' = calls + 1 /\ UNCHANGED plan

\* In Spec the application awaits each call before it makes the next one.
MayCall == plan = <<>> /\ calls < MaxCalls /\ TopInFlight = 0

\* The application starts the notice system, once per process.
Startup(c) ==
    /\ plan = <<>>
    /\ c = Main
    /\ ~sub[c]
    /\ Step(initializeNoticeSystem(Begin, c))

\* showNotice of useNoticeWindow.
ShowNotice(c, m) ==
    /\ MayCall /\ sub[c]
    /\ Call(enqueue(Begin, c, m))

\* hideNotice of useHideNotice, for a message the application was sent.
HideNotice(c, id) ==
    /\ MayCall /\ sub[c]
    /\ hasMessage(db, id)
    /\ Call(hideNotice(Begin, c, id))

HideAllNotices(c) ==
    /\ MayCall /\ sub[c]
    /\ Call(hideAllNotices(Begin, c))

\* closeNotice of useCloseNotice; with no currentMessage it does nothing.
CloseNotice(c) ==
    /\ MayCall /\ sub[c]
    /\ store[c].currentMessage # None
    /\ Call(closeNotice(Begin, c))

\* The application calls the store's clearOnLogout() (logout).
ClearOnLogout(c) ==
    /\ MayCall /\ sub[c]
    /\ Call(clearOnLogout(Begin, c,
                          [Task("clearAll", c, None) EXCEPT !.iso = TRUE]))

\* The user closes a notice window with its close button.
UserClosesWindow(id) ==
    /\ plan = <<>>
    /\ id \in wins
    /\ Step(Destroyed(Begin, id))

\* The process ends and starts again: only the database is kept.
Restarted ==
    [store |-> [c \in Contexts |-> InitialState],
     prev |-> [c \in Contexts |-> None],
     sub |-> [c \in Contexts |-> FALSE],
     awin |-> [c \in Contexts |-> {}],
     handlers |-> [c \in Contexts |-> [id \in Ids |-> 0]],
     db |-> db, wins |-> {}, tasks |-> EmptyBag,
     presented |-> [id \in Ids |-> 0], last |-> NoObs,
     page |-> None, chan |-> [c \in Contexts |-> <<>>]]

Restart ==
    /\ plan = <<>> /\ calls < MaxCalls
    /\ \E c \in Contexts : sub[c]
    /\ Call(Restarted)

Init ==
    /\ store = [c \in Contexts |-> InitialState]
    /\ prev = [c \in Contexts |-> None]
    /\ sub = [c \in Contexts |-> FALSE]
    /\ awin = [c \in Contexts |-> {}]
    /\ handlers = [c \in Contexts |-> [id \in Ids |-> 0]]
    /\ db = [id \in Ids |-> NoRow]
    /\ wins = {}
    /\ tasks = EmptyBag
    /\ presented = [id \in Ids |-> 0]
    /\ last = NoObs
    /\ calls = 0
    /\ plan = <<>>
    /\ page = None
    /\ chan = [c \in Contexts |-> <<>>]

Next ==
    \/ Steps
    \/ WindowCreateThrows
    \/ \E c \in Contexts : Startup(c)
    \/ \E c \in Contexts, m \in Ids : ShowNotice(c, m)
    \/ \E c \in Contexts, id \in Ids : HideNotice(c, id)
    \/ \E c \in Contexts : HideAllNotices(c)
    \/ \E c \in Contexts : CloseNotice(c)
    \/ \E c \in Contexts : ClearOnLogout(c)
    \/ \E id \in Ids : UserClosesWindow(id)
    \/ Restart

Spec == Init /\ [][Next]_vars

-----------------------------------------------------------------------------
(* Scenarios: the environment makes the calls of `plan`, in order *)

\* wait: "calls": the awaited calls made so far have completed;
\* "settled": no task is in flight; "now": at once; "during": while a call
\* of the same context is suspended inside enqueue, showNext or
\* initializeFromDatabase.  "overlap": while an enqueue of another context
\* has not yet set its queue and no update is on its way.
Op(op, m, wait) == [op |-> op, msg |-> m, wait |-> wait, ctx |-> Main]

\* The same call made in the webview of the notice window.
OpIn(c, op, m, wait) == [Op(op, m, wait) EXCEPT !.ctx = c]

Enq(m) == Op("enqueue", m, "calls")

\* The k-th "e" of a word over {"e", "c"} enqueues message k; each "c" is a
\* direct clearCurrent().  A word is a FIFO scenario when every clearCurrent
\* has an enqueue before it to clear.
FifoWords ==
    {w \in [1..(2 * NumMsgs) -> {"e", "c"}] :
        /\ Cardinality({i \in DOMAIN w : w[i] = "e"}) = NumMsgs
        /\ \A n \in DOMAIN w :
              Cardinality({i \in 1..n : w[i] = "c"})
                 <= Cardinality({i \in 1..n : w[i] = "e"})}

FifoPlans ==
    {[i \in DOMAIN w |->
        IF w[i] = "e" THEN Enq(Cardinality({j \in 1..i : w[j] = "e"}))
        ELSE Op("clearCurrent", None, "calls")] : w \in FifoWords}

\* The same with the windows: the user closes each notice.
FifoWindowPlan ==
    <<Op("startup", None, "calls")>>
        \o [i \in 1..NumMsgs |-> Enq(i)]
        \o [i \in 1..NumMsgs |-> Op("userClose", None, "calls")]

\* Two enqueue calls for message 1 in flight at once, then clearCurrent().
SameIdPlan ==
    <<Enq(1), Op("enqueue", 1, "now"), Op("clearCurrent", None, "settled")>>

\* enqueue 1, enqueue 2, restart, start again; the user closes what shows.
RestartPlan ==
    <<Enq(1), Enq(2), Op("restart", None, "calls"), Op("init", None, "calls")>>

\* Message 1 is showing, 3 and then 2 wait; the process stops and starts
\* again.
StartupRestorePlan ==
    <<Op("startup", None, "calls"), Enq(1), Enq(3), Enq(2),
      Op("restart", None, "settled"), Op("startup", None, "calls")>>

\* Two showNotice calls with different ids, the second made while the first
\* is in flight: into the idle queue, and behind the showing message 1.
ConcurrentEnqueuePlans ==
    {<<Op("startup", None, "calls"), Enq(1), Op("enqueue", 2, "now")>>,
     <<Op("startup", None, "calls"), Enq(1), Enq(2), Op("enqueue", 3, "now")>>}

RestartWindowPlan ==
    <<Op("startup", None, "calls"), Enq(1), Enq(2), Op("restart", None, "settled"),
      Op("startup", None, "calls"), Op("userClose", None, "settled")>>

\* Message 1 is showing in its window, 2 and 3 wait; message 1 is hidden.
HidePlan ==
    <<Op("startup", None, "calls"), Enq(1), Enq(2), Enq(3),
      Op("hide", 1, "settled")>>

\* Message 1 is showing, 2 waits and is hidden; then the user closes 1.
HidePendingPlan ==
    <<Op("startup", None, "calls"), Enq(1), Enq(2), Op("hide", 2, "settled"),
      Op("userClose", None, "settled")>>

\* Message 1 is showing in its window, 2 waits; hideAllNotices().
HideAllPlan ==
    <<Op("startup", None, "calls"), Enq(1), Enq(2), Op("hideAll", None, "settled")>>

\* Message 1 is showing in its window, 2 waits; the page of the window has
\* loaded; hideNotice('1') is called in the page.
HideFromNoticePlan ==
    <<Op("startup", None, "calls"), Enq(1), Enq(2),
      OpIn(Notice, "attach", 1, "settled"), OpIn(Notice, "hide", 1, "settled")>>

\* The same, with closeNotice() called in the page (its OK button) while the
\* page's store has currentMessage = 1.
CloseFromNoticePlan ==
    <<Op("startup", None, "calls"), Enq(1), Enq(2),
      OpIn(Notice, "attach", 1, "settled"),
      OpIn(Notice, "closeNotice", 1, "settled")>>

\* Two contexts at work.  Message 1 is showing, 2 waits, the page of the
\* window of message 1 has loaded with the state of the main window; then
\* two events, each a hide event of
\* the server handled in one of the contexts, the user closing a window or a
\* new message enqueued in the main window, the second not waiting for the
\* first.
SyncEvents ==
    {OpIn(c, "hide", m, "now") : c \in Contexts, m \in 1..2}
        \cup {Op("userClose", None, "now"), Op("enqueue", 3, "now")}

SyncPlans ==
    {<<Op("startup", None, "calls"), Enq(1), Enq(2),
       OpIn(Notice, "attachSynced", 1, "settled"), a, b>> : a, b \in SyncEvents}

\* A call on the table fails: during enqueue(1) into the idle queue; after
\* the user closed the window of message 1, with message 2 waiting; during
\* the startup that follows a restart.
EnqueueFailPlan ==
    <<Op("startup", None, "calls"), Op("enqueue", 1, "calls"),
      Op("fail", None, "now")>>

ClearFailPlan ==
    <<Op("startup", None, "calls"), Enq(1), Enq(2),
      Op("userClose", None, "settled"), Op("fail", None, "now")>>

InitFailPlan ==
    <<Op("startup", None, "calls"), Enq(1), Enq(2),
      Op("restart", None, "settled"), Op("startup", None, "calls"),
      Op("fail", None, "now")>>

FailPlans == {EnqueueFailPlan, ClearFailPlan, InitFailPlan}

\* The user closes the window of message 1 with message 2 waiting, a call on
\* the table fails at once, and message 3 is enqueued afterwards.
WedgePlan ==
    <<Op("startup", None, "calls"), Enq(1), Enq(2),
      Op("userClose", None, "settled"), Op("fail", None, "now"), Enq(3)>>

\* Messages 1..k have been enqueued and all is at rest; hideNotice is called
\* for message k+1, which the table, the queue and the store do not know.
HideUnknownPlans ==
    {<<Op("startup", None, "calls")>> \o [i \in 1..k |-> Enq(i)]
        \o <<Op("hide", k + 1, "settled")>> : k \in 0..(NumMsgs - 1)}

\* initializeFromDatabase() is called a second time: after the startup and
\* two enqueues, or after a restart and a first call that is still in
\* flight, has returned, or has settled.
InitTwicePlans ==
    {<<Op("startup", None, "calls"), Enq(1), Enq(2), Op("init", None, w)>> :
        w \in {"calls", "settled"}}
    \cup
    {<<Op("startup", None, "calls"), Enq(1), Enq(2), Enq(3),
       Op("restart", None, "settled"), Op("init", None, "calls"),
       Op("init", None, w)>> : w \in {"now", "calls", "settled"}}

\* The awaits inside enqueue, showNext and initializeFromDatabase.
QueuePcs ==
    {"hasMessage", "saveMessage", "enqueue.persistQueue", "updateQueueStatus",
     "showNext.persistQueue", "getPendingMessages"}

\* clearOnLogout() is called while a call of the same context is suspended
\* inside enqueue (showNotice(1)), inside the showNext that follows the
\* closing of the window of message 1, or inside the initializeFromDatabase
\* of the startup after a restart.
ClearAllPlans ==
    {<<Op("startup", None, "calls"), Enq(1), Op("clearAll", None, "during")>>,
     <<Op("startup", None, "calls"), Enq(1), Enq(2),
       Op("userClose", None, "settled"), Op("clearAll", None, "during")>>,
     <<Op("startup", None, "calls"), Enq(1), Enq(2),
       Op("restart", None, "settled"), Op("startup", None, "calls"),
       Op("clearAll", None, "during")>>}

\* Message 1 is showing and the page of its window has loaded with the
\* state of the main window; showNotice(2) is called in the main window and
\* showNotice(3) in the page while that call has not yet changed the queue.
CrossEnqueuePlan ==
    <<Op("startup", None, "calls"), Enq(1),
      OpIn(Notice, "attachSynced", 1, "settled"),
      Op("enqueue", 2, "settled"), OpIn(Notice, "enqueue", 3, "overlap")>>

\* showNext() is called on the idle, empty queue.
ShowNextEmptyPlan ==
    <<Op("startup", None, "calls"), Op("showNext", None, "settled")>>

Plans ==
    {ShowNextEmptyPlan, WedgePlan, StartupRestorePlan, CrossEnqueuePlan} \cup ConcurrentEnqueuePlans \cup ClearAllPlans \cup FailPlans \cup HideUnknownPlans \cup InitTwicePlans \cup FifoPlans \cup {FifoWindowPlan, SameIdPlan, RestartPlan, RestartWindowPlan,
                    HidePlan, HidePendingPlan, HideAllPlan, HideFromNoticePlan,
                    CloseFromNoticePlan}
            \cup SyncPlans

PlanDo(op) ==
    /\ calls < Len(plan)
    /\ plan[calls + 1].op = op
    /\ \/ plan[calls + 1].wait = "now"
       \/ plan[calls + 1].wait = "calls" /\ TopInFlight = 0
       \/ plan[calls + 1].wait = "settled" /\ tasks = EmptyBag
       \/ /\ plan[calls + 1].wait = "overlap"
          /\ chan = [c \in Contexts |-> <<>>]
          /\ \E t \in BagToSet(tasks) :
                /\ t.op = "enqueue" /\ t.ctx # plan[calls + 1].ctx
                /\ t.pc \in {"hasMessage", "saveMessage"}
       \/ /\ plan[calls + 1].wait = "during"
          /\ \E t \in BagToSet(tasks) :
                t.ctx = plan[calls + 1].ctx /\ t.pc \in QueuePcs

PlanEnqueue ==
    /\ PlanDo("enqueue")
    /\ plan[calls + 1].ctx \in Running(Cur)
    /\ Call(enqueue(Begin, plan[calls + 1].ctx, plan[calls + 1].msg))

\* A direct call of the store's clearCurrent(), on a current message.
PlanClearCurrent ==
    /\ PlanDo("clearCurrent")
    /\ store[Main].currentMessage # None
    /\ Call(clearCurrent(Begin, Main))

\* A direct call of the store's initializeFromDatabase().
PlanInitialize ==
    /\ PlanDo("init")
    /\ Call(initializeFromDatabase(Begin, Main))

PlanStartup ==
    /\ PlanDo("startup")
    /\ Call(initializeNoticeSystem(Begin, Main))

PlanRestart ==
    /\ PlanDo("restart")
    /\ Call(Restarted)

PlanHide ==
    /\ PlanDo("hide")
    /\ plan[calls + 1].ctx \in Running(Cur)
    /\ Call(hideNotice(Begin, plan[calls + 1].ctx, plan[calls + 1].msg))

\* closeNotice() called while the hook's currentMessage is plan[calls + 1].msg.
PlanCloseNotice ==
    /\ PlanDo("closeNotice")
    /\ plan[calls + 1].ctx \in Running(Cur)
    /\ store[plan[calls + 1].ctx].currentMessage = plan[calls + 1].msg
    /\ Call(closeNotice(Begin, plan[calls + 1].ctx))

\* The page of the notice window plan[calls + 1].msg loads: its store is
\* created.  Whether the synchronizer hands a new context the state of the
\* others is not decided by this repository: "attach" leaves both possible,
\* "attachSynced" is the case in which it does.
PlanAttach ==
    /\ \/ PlanDo("attach")
       \/ PlanDo("attachSynced")
    /\ page = None
    /\ plan[calls + 1].msg \in wins
    /\ \E hydrated \in {TRUE} \cup {h \in {FALSE} : plan[calls + 1].op = "attach"} :
          Call([Begin EXCEPT
                  !.page = plan[calls + 1].msg,
                  !.store[Notice] = IF hydrated
                                    THEN [Begin.store[Main] EXCEPT !.initialized = FALSE]
                                    ELSE InitialState])

PlanHideAll ==
    /\ PlanDo("hideAll")
    /\ Call(hideAllNotices(Begin, Main))

PlanUserClose ==
    /\ PlanDo("userClose")
    /\ \E id \in wins : Call(Destroyed(Begin, id))

\* The awaits on the Dexie table.
StorePcs ==
    {"hasMessage", "saveMessage", "enqueue.persistQueue", "updateQueueStatus",
     "showNext.persistQueue", "getPendingMessages", "clearPendingMessages",
     "markAsShown", "markAsHidden"}

\* A call on the Dexie table fails (quota exceeded, database closed).
StoreCallFails ==
    \E t \in BagToSet(tasks) :
        /\ t.pc \in StorePcs
        /\ Call(Rejects(Resume(t), t))

\* A direct call of the store's showNext().
PlanShowNext ==
    /\ PlanDo("showNext")
    /\ Call(showNext(Begin, Main, ShowNextTask(Begin, Main)))

PlanFail ==
    /\ PlanDo("fail")
    /\ StoreCallFails

\* A direct call of the store's clearOnLogout().
PlanClearOnLogout ==
    /\ PlanDo("clearAll")
    /\ Call(clearOnLogout(Begin, Main, Task("clearAll", Main, None)))

InitPlan ==
    /\ store = [c \in Contexts |-> InitialState]
    /\ prev = [c \in Contexts |-> None]
    /\ sub = [c \in Contexts |-> FALSE]
    /\ awin = [c \in Contexts |-> {}]
    /\ handlers = [c \in Contexts |-> [id \in Ids |-> 0]]
    /\ db = [id \in Ids |-> NoRow]
    /\ wins = {}
    /\ tasks = EmptyBag
    /\ presented = [id \in Ids |-> 0]
    /\ last = NoObs
    /\ calls = 0
    /\ plan \in Plans
    /\ page = None
    /\ chan = [c \in Contexts |-> <<>>]

NextPlan ==
    \/ HasMessageReturns
    \/ SaveMessageReturns
    \/ EnqueuePersistReturns
    \/ UpdateQueueStatusReturns
    \/ ShowNextPersistReturns
    \/ GetPendingMessagesReturns
    \/ WindowCreated
    \/ DestroyedHandlerRuns
    \/ MarkAsShownReturns
    \/ MarkAsHiddenReturns
    \/ WindowCloseRuns
    \/ WindowCloseReturns
    \/ CloseAllRuns
    \/ CloseAllReturns
    \/ ClearPendingMessagesReturns
    \/ PlanEnqueue
    \/ PlanClearCurrent
    \/ PlanInitialize
    \/ PlanStartup
    \/ PlanRestart
    \/ PlanHide
    \/ PlanCloseNotice
    \/ PlanAttach
    \/ SyncDelivered
    \/ PlanHideAll
    \/ PlanUserClose
    \/ PlanFail
    \/ PlanShowNext
    \/ PlanClearOnLogout

SpecPlan == InitPlan /\ [][NextPlan]_vars

-----------------------------------------------------------------------------
(* Delivery: notifications arrive, every window is closed in the end *)

\* A notification arrives and its handler calls showNotice; nothing makes a
\* handler wait for the call of the notification before it.  The messages
\* arrive in the order 1, 2, ..., each once.
Notify(m) ==
    /\ plan = <<>> /\ calls < Notifications /\ sub[Main]
    /\ m = calls + 1
    /\ Call(enqueue(Begin, Main, m))

\* The user closes the window of message id after reading it: the writes
\* of the showNext that presented the message were requested before the
\* window existed, and the table performs its writes in the order requested,
\* so they are done before the close handler's markAsShown.
UserDismisses(id) ==
    /\ \A t \in BagToSet(tasks) :
          t.pc \in {"updateQueueStatus", "showNext.persistQueue"} => t.next # id
    /\ UserClosesWindow(id)

NextLive ==
    \/ Startup(Main)
    \/ \E m \in Ids : Notify(m)
    \/ \E id \in Ids : UserDismisses(id)
    \/ HasMessageReturns
    \/ SaveMessageReturns
    \/ EnqueuePersistReturns
    \/ UpdateQueueStatusReturns
    \/ ShowNextPersistReturns
    \/ GetPendingMessagesReturns
    \/ WindowCreated
    \/ DestroyedHandlerRuns
    \/ MarkAsShownReturns

\* What happens without a further notification: a call on the table
\* returns, a window is created, a handler runs, the user closes a window.
Progress ==
    \/ \E id \in Ids : UserDismisses(id)
    \/ HasMessageReturns
    \/ SaveMessageReturns
    \/ EnqueuePersistReturns
    \/ UpdateQueueStatusReturns
    \/ ShowNextPersistReturns
    \/ GetPendingMessagesReturns
    \/ WindowCreated
    \/ DestroyedHandlerRuns
    \/ MarkAsShownReturns

\* The event loop runs every callback that is ready, the table answers every
\* call, and the user closes every window that is open: the system does not
\* stop while one of these is possible.  The notifications are finitely
\* many, so this is as strong as fairness for each of them.
Fairness == WF_vars(Progress)

SpecLive == Init /\ [][NextLive]_vars /\ Fairness

-----------------------------------------------------------------------------
(* Properties *)

PlanDone == plan # <<>> /\ calls = Len(plan)

Settled == tasks = EmptyBag

\* Every sync update has been delivered.
Converged == \A c \in Contexts : chan[c] = <<>>

Showing == {id \in Ids : db[id].queueStatus = "showing"}

\* The messages showNext has presented, and the clearCurrent() calls made.
PresentedIds == {id \in Ids : presented[id] > 0}

Cleared == Cardinality({i \in 1..calls : plan[i].op = "clearCurrent"})

\* C1: FIFO.  Enqueue 1, 2, 3 into an empty idle queue, each call completing
\* before the next, with clearCurrent() calls in between or after: each message
\* is presented at most once, message k only after 1..k-1, the
\* currentMessage is the newest one presented until it is cleared, and when
\* all is done every message has been presented.
C1_Fifo ==
    plan \in FifoPlans =>
        LET k == Cardinality(PresentedIds)
        IN  /\ \A id \in Ids : presented[id] <= 1
            /\ PresentedIds = 1..k
            /\ store[Main].currentMessage = (IF Cleared >= k THEN None ELSE k)
            /\ PlanDone /\ Settled =>
                  /\ k = NumMsgs
                  /\ store[Main].queue = <<>>
                  /\ store[Main].currentMessage = None

C1_Witness ==
    /\ plan \in FifoPlans
    /\ PlanDone /\ Settled
    /\ \A id \in Ids : presented[id] = 1
    /\ store[Main].currentMessage = None

\* C2: Idempotence.  When enqueue(m) has completed and a second enqueue(m)
\* follows it and completes, no other step running in between, the queue
\* holds exactly one entry for m and the table holds its row.
C2_Idempotent ==
    (last.op = "enqueue" /\ last.second /\ last.iso) =>
        /\ CountIn(store[last.ctx].queue, last.msg) = 1
        /\ hasMessage(db, last.msg)

C2_Witness ==
    /\ last.op = "enqueue" /\ last.second /\ last.iso
    /\ store[last.ctx].queue = <<last.msg>>
    /\ store[last.ctx].currentMessage \notin {None, last.msg}

\* C3: two enqueue(1) calls in flight at once: message 1 never has two
\* queue entries and is never presented twice.
C3_ConcurrentSameId ==
    plan = SameIdPlan =>
        /\ CountIn(store[Main].queue, 1) <= 1
        /\ presented[1] <= 1

\* C4: Idle enqueue.  When enqueue(m) began with an empty queue, isProcessing
\* false and no currentMessage, and ran with no other step in between, it
\* ends with currentMessage = m, isProcessing true, the queue empty and m's
\* row showing.
C4_IdleEnqueue ==
    (last.op = "enqueue" /\ last.iso /\ last.idle /\ last.queue = <<>>) =>
        /\ store[last.ctx].currentMessage = last.msg
        /\ store[last.ctx].isProcessing
        /\ store[last.ctx].queue = <<>>
        /\ db[last.msg].queueStatus = "showing"

C4_Witness ==
    /\ last.op = "enqueue" /\ last.iso /\ last.idle /\ last.queue = <<>>
    /\ store[last.ctx].currentMessage = last.msg
    /\ Showing = {last.msg}

\* C5: at most one row of the table has queueStatus = showing.
C5_OneShowing == Cardinality(Showing) <= 1

\* C6: at most one notice window is open.
C6_OneWindow == Cardinality(wins) <= 1

\* C7: Restart durability.  After enqueue(1), enqueue(2), a restart and
\* initializeFromDatabase(), message 1 is the currentMessage and the queue
\* is [2].
C7_RestartOrder ==
    (plan = RestartPlan /\ last.op = "init") =>
        /\ store[Main].currentMessage = 1
        /\ store[Main].queue = <<2>>

\* C8: No lost notifications.  After a restart, the startup and the close of
\* what it shows, every row still pending or showing is of a message that
\* has been presented since the restart or waits in the queue.
C8_NoLostNotification ==
    (plan = RestartWindowPlan /\ PlanDone /\ Settled) =>
        \A id \in Ids :
            db[id].queueStatus \in {"pending", "showing"} =>
                presented[id] > 0 \/ id \in Range(store[Main].queue)

\* C9: after hide(1) on the showing message 1 and the destroyed handler it
\* triggers have completed, the row of message 1 is hidden.
C9_HiddenStatus ==
    (plan = HidePlan /\ PlanDone /\ Settled) => db[1].queueStatus = "hidden"

\* C10: after hide(1) on the showing message 1 with queue [2, 3], and the
\* destroyed handler, have completed, message 2 is the currentMessage, the
\* queue is [3] and only the window of message 2 is open.
C10_AdvanceByOne ==
    (plan = HidePlan /\ PlanDone /\ Settled) =>
        /\ store[Main].currentMessage = 2
        /\ store[Main].queue = <<3>>
        /\ wins = {2}

\* C11: when hideNotice('1') on the showing message 1 has completed, in
\* the main window or in the page of the notice window, with the handlers it
\* triggered and the sync updates, the window of message 1 is closed and no
\* context has 1 in activeWindowIds.
C11_HideReleasesWindow ==
    (plan \in {HidePlan, HideFromNoticePlan} /\ PlanDone /\ Settled /\ Converged) =>
        /\ 1 \notin wins
        /\ \A c \in Running(Cur) : ~isWindowActive(Cur, c, 1)

\* C12: message 2 is hidden while it waits in the queue behind the showing
\* message 1: it is never presented, and when all is done its row is hidden.
C12_HiddenPendingNotShown ==
    plan = HidePendingPlan =>
        /\ presented[2] = 0
        /\ (PlanDone /\ Settled) => db[2].queueStatus = "hidden"

\* The moves of a row's queueStatus the lifecycle allows; deleting a pending
\* or showing row is clearAll's.
Lifecycle(from, to) ==
    \/ from = to
    \/ from = "absent" /\ to = "pending"
    \/ from = "pending" /\ to \in {"showing", "hidden", "absent"}
    \/ from = "showing" /\ to \in {"shown", "hidden", "absent"}

\* C13: every step moves each row's queueStatus along the lifecycle
\* pending -> showing -> shown or pending|showing -> hidden; a row that is
\* shown or hidden keeps its status.  Stated of the runs in which a showing
\* or a waiting message is hidden.
C13_Lifecycle ==
    [][(plan \in {HidePlan, HidePendingPlan}) =>
          (\A id \in Ids : Lifecycle(db[id].queueStatus, db'[id].queueStatus))]_vars

\* C14: when clearOnLogout() has completed, no other step running during
\* the call, no row is pending or showing (getPendingMessages is empty), the
\* queue is empty, there is no currentMessage, isProcessing is false,
\* activeWindowIds is empty and initialized is false.
C14_BulkClear ==
    (last.op = "clearAll" /\ last.iso) =>
        /\ getPendingMessages(db) = <<>>
        /\ \A id \in Ids : db[id].queueStatus \notin {"pending", "showing"}
        /\ store[last.ctx] = InitialState

C14_Witness ==
    /\ last.op = "clearAll" /\ last.iso
    /\ \E id \in Ids : db[id].queueStatus = "shown"
    /\ \E id \in Ids : db[id].queueStatus = "absent"
    /\ store[last.ctx].queue = <<>>

\* C15: when hideAllNotices() and the destroyed handlers of the windows it
\* closed have completed, no window is open, there is no currentMessage,
\* isProcessing is false, the queue is empty and message 2, which waited, has
\* not been presented.
C15_HideAllClears ==
    (plan = HideAllPlan /\ PlanDone /\ Settled) =>
        /\ wins = {}
        /\ store[Main].currentMessage = None
        /\ ~store[Main].isProcessing
        /\ store[Main].queue = <<>>
        /\ presented[2] = 0

C19_CloseFromNoticePage ==
    (plan = CloseFromNoticePlan /\ PlanDone /\ Settled /\ Converged) =>
        /\ 1 \notin wins
        /\ db[1].queueStatus = "shown"
        /\ store[Main].currentMessage = 2

\* C16: when every sync update has been delivered, the main context and
\* the notice page do not hold two currentMessages with different ids.
C16_OneShowingAcrossContexts ==
    (plan \in SyncPlans /\ page # None /\ Converged) =>
        \/ store[Main].currentMessage = None
        \/ store[Notice].currentMessage = None
        \/ store[Main].currentMessage = store[Notice].currentMessage

\* The fields of the Queue State the contexts share.
Shared(c) ==
    [queue |-> store[c].queue, currentMessage |-> store[c].currentMessage,
     isProcessing |-> store[c].isProcessing,
     activeWindowIds |-> store[c].activeWindowIds]

\* C17: when the calls have been made, nothing is in flight and every sync
\* update has been delivered, the main context and the notice page hold the
\* same queue, currentMessage, isProcessing and activeWindowIds.
C17_EventualConsistency ==
    (plan \in SyncPlans /\ page # None /\ PlanDone /\ Settled /\ Converged) =>
        Shared(Main) = Shared(Notice)

\* The createNoticeWindow calls for message m that have passed the
\* isWindowActive guard and are about to open the window.
Opening(T, m) ==
    LET X == {t \in BagToSet(T) : t.op = "createNoticeWindow" /\ t.msg = m}
        RECURSIVE Sum(_)
        Sum(Y) == IF Y = {} THEN 0
                  ELSE LET y == CHOOSE z \in Y : TRUE
                       IN  CopiesIn(y, T) + Sum(Y \ {y})
    IN  Sum(X)

\* C18: when the main context applies a received sync update, a window is
\* opened for message m only if the update changes currentMessage to m from
\* another value and m is not in activeWindowIds; an update whose
\* currentMessage is none or the id the context already has opens nothing.
C18_SyncOpensOnChangeOnly ==
    [][(plan \in SyncPlans /\ chan[Main] # <<>> /\ chan'[Main] = Tail(chan[Main])) =>
          (\A m \in Ids :
              Opening(tasks', m) > Opening(tasks, m) =>
                  /\ store[Main].currentMessage # m
                  /\ store'[Main].currentMessage = m
                  /\ ~isWindowActive(Cur, Main, m))]_vars

QueueOps == {"enqueue", "showNext", "init", "clearAll", "hideAll"}

\* C22: when a call on the table fails inside a queue operation, the
\* operation rejects the promise its caller awaits: the failure never ends
\* in a promise nobody holds.
C22_FailuresPropagate ==
    (last.error # "none" /\ last.op \in QueueOps) => last.error = "rejected"

\* C23: hideNotice(id) for an id that has no row, is not in the queue and
\* is not the currentMessage: from the call on, no step changes the store,
\* the table or the windows, and no step ends in an error.
C23_HideUnknownNoOp ==
    [][(plan \in HideUnknownPlans /\ calls' = Len(plan)) =>
          /\ store' = store
          /\ db' = db
          /\ wins' = wins
          /\ last'.error = "none"]_vars

C23_Witness ==
    /\ plan \in HideUnknownPlans
    /\ PlanDone /\ Settled
    /\ last.op = "hide" /\ last.error = "none"
    /\ db[last.msg].queueStatus = "absent"
    /\ store[Main].currentMessage = 1
    /\ store[Main].queue = <<2>>

\* C24: a second initializeFromDatabase() in a context, no clearOnLogout
\* in between, returns at once: the call changes neither the store nor a
\* row, starts nothing, and no message is presented a second time.
C24_InitializeOnce ==
    [][(plan \in InitTwicePlans) =>
          (/\ \A id \in Ids : presented'[id] <= 1
           /\ (calls' = Len(plan) /\ calls # calls') =>
                 (/\ store' = store
                  /\ db' = db
                  /\ presented' = presented
                  /\ BagCardinality(tasks') = BagCardinality(tasks)
                  /\ last'.op = "init"))]_vars

C24_Witness ==
    /\ plan \in InitTwicePlans
    /\ PlanDone
    /\ last.op = "init"
    /\ \E t \in TasksAt("getPendingMessages") : t.op = "init"
    /\ store[Main].initialized

\* C25: every message in the queue of the main context has a row with
\* queueStatus = pending.
C25_QueueHoldsPending ==
    \A id \in Range(store[Main].queue) : db[id].queueStatus = "pending"

\* The rows with queueStatus = pending.
PendingIds == {id \in Ids : db[id].queueStatus = "pending"}

\* C26: when no call and no handler is in flight, the pending rows in
\* ascending queuePosition are the queue of the main context in its order,
\* and no two pending rows have the same queuePosition.
C26_PositionsMatchQueue ==
    (Settled /\ store[Main].initialized) =>
        /\ getPendingMessages(db) = store[Main].queue
        /\ \A x, y \in PendingIds :
              x # y => db[x].queuePosition # db[y].queuePosition

\* C27: in every context isProcessing is true exactly when there is a
\* currentMessage.
C27_BusyIffCurrent ==
    \A c \in Contexts :
        store[c].isProcessing <=> store[c].currentMessage # None

C27_Witness ==
    /\ store[Main].isProcessing /\ store[Main].currentMessage = 2
    /\ store[Main].queue = <<3>>
    /\ db[1].queueStatus = "shown"
    /\ \E t \in TasksAt("updateQueueStatus") : t.op = "showNext"

\* C28: in a state with isProcessing true a showNext() changes neither the
\* store nor a row and starts nothing; and an enqueue(m) that began while a
\* message was showing, m not in the queue, and ran with no other step in
\* between, ends with m appended to the queue and the currentMessage as it
\* was.
C28_ShowNextWhileBusy ==
    /\ \A c \in Contexts :
          store[c].isProcessing =>
              LET S == showNext(Cur, c, Task("showNext", c, None))
              IN  /\ S.store = store /\ S.db = db /\ S.tasks = tasks
                  /\ S.presented = presented /\ S.chan = chan
    /\ (last.op = "enqueue" /\ last.iso /\ ~last.idle
            /\ last.msg \notin Range(last.queue)) =>
          /\ store[last.ctx].queue = Append(last.queue, last.msg)
          /\ store[last.ctx].currentMessage = last.cur
          /\ store[last.ctx].isProcessing

C28_Witness ==
    /\ last.op = "enqueue" /\ last.iso /\ ~last.idle
    /\ last.queue # <<>> /\ last.msg \notin Range(last.queue)
    /\ last.cur \notin {None, last.msg}
    /\ store[last.ctx].queue = Append(last.queue, last.msg)
    /\ store[last.ctx].currentMessage = last.cur

\* The queue the showNext() of the call `last` started from: the queue
\* clearCurrent left or a direct call found, the rows initializeFromDatabase
\* loaded, the queue of an idle enqueue with its message appended.
ShowNextQueue ==
    IF last.op = "enqueue" /\ last.msg \notin Range(last.queue)
    THEN Append(last.queue, last.msg)
    ELSE last.queue

\* C29: a showNext() that starts with isProcessing false and runs with no
\* other step in between ends, for a queue [h, t1, ..., tk], with
\* currentMessage = h, isProcessing true, queue = [t1, ..., tk], the row of h
\* showing and the row of each ti at queuePosition i - 1; for the empty
\* queue, with no currentMessage and isProcessing false.
C29_ShowNextTransition ==
    (last.op \in {"showNext", "init", "enqueue"} /\ last.iso /\ last.idle
        /\ last.error = "none"
        /\ (last.op = "init" => last.queue # <<>>)) =>
        LET q == ShowNextQueue
            c == last.ctx
        IN  IF q = <<>>
            THEN /\ store[c].currentMessage = None
                 /\ ~store[c].isProcessing
            ELSE /\ store[c].currentMessage = Head(q)
                 /\ store[c].isProcessing
                 /\ store[c].queue = Tail(q)
                 /\ db[Head(q)].queueStatus = "showing"
                 /\ \A i \in 1..Len(Tail(q)) : db[Tail(q)[i]].queuePosition = i - 1

\* A showNext() started by clearCurrent on a queue of two or more has run
\* alone and shows the head.
C29_Witness ==
    /\ last.op = "showNext" /\ last.iso /\ last.idle /\ last.error = "none"
    /\ Len(last.queue) >= 2
    /\ store[last.ctx].currentMessage = Head(last.queue)

\* C30: with every table call returning and every open window closed in the
\* end, each message whose enqueue has completed is presented as the
\* currentMessage and its row reaches queueStatus shown.
C30_EveryMessageShown ==
    \A m \in Ids :
        /\ (last.op = "enqueue" /\ last.msg = m /\ last.error = "none")
              ~> (presented[m] > 0)
        /\ (last.op = "enqueue" /\ last.msg = m /\ last.error = "none")
              ~> (db[m].queueStatus = "shown")

\* The close handler of message 1 is waiting for markAsShown.
MarkAsShownPending ==
    \E t \in BagToSet(tasks) : t.pc = "markAsShown" /\ t.msg = 1

\* markAsShown has failed in the close handler of message 1: the fail of the
\* plan is past and the row was never written.
MarkAsShownFailed ==
    /\ calls >= 5
    /\ db[1].queueStatus # "shown"

\* C31: while the markAsShown of the close handler has not returned, and
\* for ever once it has failed, clearCurrent() has not run: isProcessing
\* stays true, the closed message stays the currentMessage and neither the
\* message that waited nor one enqueued later is presented.
C31_StuckWedges ==
    (plan = WedgePlan /\ (MarkAsShownPending \/ MarkAsShownFailed)) =>
        /\ store[Main].isProcessing
        /\ store[Main].currentMessage = 1
        /\ presented[2] = 0 /\ presented[3] = 0
        /\ 2 \in Range(store[Main].queue)

\* markAsShown failed, message 3 was enqueued after it and everything has
\* come to rest behind the closed message.
C31_Witness ==
    /\ plan = WedgePlan /\ MarkAsShownFailed
    /\ calls = Len(plan) /\ Settled
    /\ store[Main].queue = <<2, 3>>
    /\ wins = {}

\* The WebviewWindow objects the code has constructed for the label
\* notice-<id>, in every context, since a window of that label was last
\* destroyed: each one registered its destroyed listener.
Constructed(id) == handlers[Main][id] + handlers[Notice][id]

C33_StartupPresentsFirst ==
    (plan = StartupRestorePlan /\ calls >= 5) =>
        /\ wins \subseteq {3}
        /\ \A m \in Ids \ {3} : Opening(tasks, m) = 0
        /\ (PlanDone /\ Settled) =>
              /\ wins = {3}
              /\ Constructed(3) = 1
              /\ store[Main].currentMessage = 3
              /\ store[Main].queue = <<2>>

\* The startup after the restart has completed and the window of message 3
\* is open, message 2 waiting behind it.
C33_Witness ==
    /\ plan = StartupRestorePlan /\ PlanDone /\ Settled
    /\ wins = {3}
    /\ db[3].queueStatus = "showing" /\ db[2].queueStatus = "pending"
    /\ db[1].queueStatus = "showing"

NoDuplicates(s) == \A i, j \in 1..Len(s) : s[i] = s[j] => i = j

\* C34: activeWindowIds is a set.  In every reachable state it holds no id
\* twice, and from every reachable state, for every context and id:
\* addActiveWindow(id) leaves the ids that were there and id, none twice,
\* with isWindowActive(id) true, and a second addActiveWindow(id) changes
\* nothing; removeActiveWindow(id) leaves the other ids, with
\* isWindowActive(id) false, and the same list when id was absent.
C34_ActiveWindowIdsIsSet ==
    \A c \in Contexts : \A id \in Ids :
        LET ids == store[c].activeWindowIds
            A == addActiveWindow(Cur, c, id)
            R == removeActiveWindow(Cur, c, id)
        IN  /\ NoDuplicates(ids)
            /\ NoDuplicates(A.store[c].activeWindowIds)
            /\ Range(A.store[c].activeWindowIds) = Range(ids) \cup {id}
            /\ isWindowActive(A, c, id)
            /\ addActiveWindow(A, c, id) = A
            /\ NoDuplicates(R.store[c].activeWindowIds)
            /\ Range(R.store[c].activeWindowIds) = Range(ids) \ {id}
            /\ ~isWindowActive(R, c, id)
            /\ (id \notin Range(ids) => R.store[c].activeWindowIds = ids)
            /\ isWindowActive(Cur, c, id) <=> id \in Range(ids)

\* Two ids are active in the main context.
C34_Witness ==
    /\ Len(store[Main].activeWindowIds) = 2
    /\ NoDuplicates(store[Main].activeWindowIds)
    /\ Range(store[Main].activeWindowIds) \subseteq wins

\* C35: the clearPendingMessages of a clearOnLogout() or hideAllNotices()
\* call deletes the rows that are pending or showing and leaves every other
\* row, shown or hidden, as it is.
C35_BulkDeleteSelective ==
    [][(last'.op \in {"clearAll", "hideAll"} /\ last'.error = "none") =>
          (\A id \in Ids :
              IF db[id].queueStatus \in {"pending", "showing"}
              THEN ~hasMessage(db', id)
              ELSE db'[id] = db[id])]_vars

\* A bulk delete has removed the row of a message that was presented and
\* kept a row that was shown or hidden.
C35_Witness ==
    /\ last.op \in {"clearAll", "hideAll"} /\ last.error = "none"
    /\ \E id \in Ids : presented[id] > 0 /\ ~hasMessage(db, id)
    /\ \E id \in Ids : db[id].queueStatus \in {"shown", "hidden"}

\* C36: when the showNotice calls of the plan, the last two of them in
\* flight together, have completed, every message is the currentMessage or
\* in the queue, and no message has been presented while an earlier one had
\* not.
C36_ConcurrentEnqueueKeepsBoth ==
    (plan \in ConcurrentEnqueuePlans /\ PlanDone /\ TopInFlight = 0) =>
        /\ \A m \in 1..(Len(plan) - 1) :
              \/ store[Main].currentMessage = m
              \/ m \in Range(store[Main].queue)
        /\ \A a, b \in 1..(Len(plan) - 1) :
              (a < b /\ presented[b] > 0) => presented[a] > 0

\* C37: in every reachable state, in every context, no id is twice in the
\* queue and the currentMessage is not in the queue.
C37_OnePlaceAtATime ==
    \A c \in Contexts :
        /\ NoDuplicates(store[c].queue)
        /\ store[c].currentMessage \notin Range(store[c].queue)

\* C38: in every reachable state of the context that opens the windows,
\* an id in activeWindowIds is the id of the currentMessage.
C38_WindowsMatchCurrent ==
    \A c \in Contexts : sub[c] =>
        \A id \in Range(store[c].activeWindowIds) :
            store[c].currentMessage = id


\* C39: when clearOnLogout() ran while an enqueue, a showNext or an
\* initializeFromDatabase of the same context was suspended at an await,
\* then after all of them have finished the queue is empty, there is no
\* currentMessage and no row is pending or showing.
C39_ClearAllWins ==
    (plan \in ClearAllPlans /\ PlanDone /\ Settled) =>
        /\ store[Main].queue = <<>>
        /\ store[Main].currentMessage = None
        /\ \A id \in Ids : db[id].queueStatus \notin {"pending", "showing"}

\* C40: when the main window and the page each enqueue a different message
\* before the other's update arrives, then after all calls have returned
\* and every update is delivered both messages are the currentMessage or in
\* the queue of every context.
C40_CrossEnqueueKeepsBoth ==
    (plan = CrossEnqueuePlan /\ PlanDone /\ Settled /\ Converged) =>
        \A c \in Running(Cur) : \A m \in {2, 3} :
            \/ store[c].currentMessage = m
            \/ m \in Range(store[c].queue)
====
